---- MODULE Spec2Model ----
(***************************************************************************)
(* A model of the search subsystem of the chess engine: the transposition  *)
(* table (TranspositionTable.cpp) and the iterative-deepening alpha-beta   *)
(* search with its controller and worker thread (Search.cpp).              *)
(***************************************************************************)
EXTENDS Integers, Sequences, FiniteSets, TLC

VARIABLES
    tt,          \* Search::tt, the process-wide table: entries and the three counters
    game,        \* the game the position passed to Search::search belongs to
    ub,          \* what the build makes of abs(INT32_MIN) and -INT32_MIN
    timeAllowed, \* Search::search's time budget
    now,         \* steady_clock::now() - start
    board,       \* the ChessBoard passed by reference
    iter,        \* i of Search::search's loop
    cpc,         \* where the calling thread is in Search::search
    stop,        \* Search::stop
    finished,    \* Search::finished
    lastPV,      \* Search::lastPV
    killerMoves, \* Search::killerMoves
    killerMoveIndexOne,
    history,     \* Search::history
    wpc,         \* where the worker thread is in threadedSearch
    frames,      \* the worker's call stack of alphaBeta and quiesce
    wret,        \* the value the last finished call returned
    result,      \* what Search::search returned
    reported,    \* the evaluation the diagnostic block prints
    done,        \* history: the depths whose worker the controller joined
    inTime,      \* history: the worker set finished and notified before the deadline
    rootScore,   \* history: the value the root alphaBeta call returned
    ev,          \* history: what the last step of the search did
    call,        \* history: the most recent direct call of a table operation
    shadow       \* history: per slot, the score and ply of the last accepted write

searchVars == <<game, ub, timeAllowed, now, board, iter, cpc, stop, finished, lastPV,
                killerMoves, killerMoveIndexOne, history, wpc, frames, wret, result,
                reported, done, inTime, rootScore, ev>>
vars == <<tt, searchVars, call, shadow>>

----------------------------------------------------------------------------
(* Numbers of the program.                                                 *)

MATE_SCORE == 65536

INT32_MIN == -2147483647 - 1

INT32_MAX == 2147483647

\* TT_SIZE is set in TranspositionTable.h; the model keeps the table small so
\* that different keys share a slot.
TT_SIZE == 4

NodeTypes == {"EMPTY", "EXACT", "UPPERBOUND", "LOWERBOUND"}

\* Move{}: the value-initialised move.
NULL_MOVE == [start |-> 0, end |-> 0, flag |-> 0, promotionType |-> 0]

\* A slot of the statically initialised table.
EmptyEntry ==
    [key |-> 0, bestMove |-> NULL_MOVE, depth |-> 0, score |-> 0, nodeType |-> "EMPTY"]

\* abs(INT32_MIN) and -INT32_MIN overflow a 32-bit int, which is undefined. A
\* build either wraps (the result is INT32_MIN again) or has been compiled on the
\* assumption that the result is a large positive number.
UBBuilds == {"wrap", "sat"}

Overflowed(u) == IF u = "wrap" THEN INT32_MIN ELSE INT32_MAX

\* abs() of <cstdlib>, in build u.
Abs(x, u) == IF x = INT32_MIN THEN Overflowed(u) ELSE IF x < 0 THEN -x ELSE x

\* Unary minus on an int, in build u.
Neg(x, u) == IF x = INT32_MIN THEN Overflowed(u) ELSE -x

Max(a, b) == IF a >= b THEN a ELSE b

Min(a, b) == IF a <= b THEN a ELSE b

\* abs of a key (a small number in the model).
AbsKey(key) == IF key < 0 THEN -key ELSE key

SlotIndex(key) == AbsKey(key) % TT_SIZE

----------------------------------------------------------------------------
(* TranspositionTable                                                      *)

InitTable ==
    [entries |-> [i \in 0..(TT_SIZE - 1) |-> EmptyEntry],
     reads |-> 0, writes |-> 0, collisions |-> 0]

\* getEntry: the slot's entry, a stored mate score made relative to ply.
ReadScore(score, ply, u) ==
    IF Abs(score, u) = MATE_SCORE
    THEN (IF score > 0 THEN 1 ELSE -1) * (MATE_SCORE - ply)
    ELSE score

getEntry(t, key, ply, u) ==
    LET e == t.entries[SlotIndex(key)]
    IN  [table |-> [t EXCEPT !.reads = @ + 1],
         entry |-> [e EXCEPT !.score = ReadScore(e.score, ply, u)]]

contains(t, key) ==
    LET e == t.entries[SlotIndex(key)]
        exists == e.nodeType # "EMPTY"
        sameKey == e.key = key
    IN  [table |-> IF exists /\ ~sameKey THEN [t EXCEPT !.collisions = @ + 1] ELSE t,
         found |-> exists /\ sameKey]

write(t, index, entry) ==
    [t EXCEPT !.entries[index] = entry, !.writes = @ + 1]

\* setEntry, lines 31-34: a score at or above the mate threshold is stored as
\* +-MATE_SCORE.
StoredScore(entry, ply, u) ==
    IF Abs(entry.score, u) >= MATE_SCORE - (entry.depth + ply)
    THEN (IF entry.score > 0 THEN 1 ELSE -1) * MATE_SCORE
    ELSE entry.score

\* The scheme with the depths compared strictly: a tie keeps the stored entry.
ReplacesDeeperOnly(savedType, savedDepth, newType, newDepth) ==
    IF savedType # "EMPTY"
    THEN IF (savedType # "EXACT" /\ newType # "EXACT")
            \/ (savedType = "EXACT" /\ newType = "EXACT")
         THEN savedDepth < newDepth
         ELSE savedType # "EXACT"
    ELSE TRUE

\* No scheme: every entry passed is written.
ReplacesAlways(savedType, savedDepth, newType, newDepth) == TRUE

\* setEntry, lines 36-46: the replacement scheme.
Replaces(savedType, savedDepth, newType, newDepth) ==
    IF savedType # "EMPTY"
    THEN IF (savedType # "EXACT" /\ newType # "EXACT")
            \/ (savedType = "EXACT" /\ newType = "EXACT")
         THEN savedDepth <= newDepth
         ELSE savedType # "EXACT"
    ELSE TRUE

setEntry(t, key, entry, ply, u) ==
    LET index == SlotIndex(key)
        e == [entry EXCEPT !.score = StoredScore(entry, ply, u)]
        saved == t.entries[index]
    IN  IF Replaces(saved.nodeType, saved.depth, e.nodeType, e.depth)
        THEN write(t, index, e)
        ELSE t

resetCounters(t) == [t EXCEPT !.reads = 0, !.writes = 0, !.collisions = 0]

----------------------------------------------------------------------------
(* The collaborators of the search: the games it is run on, the board, the  *)
(* move generator and the evaluator. Their code is not part of the search   *)
(* subsystem; they are modelled from the interface the search uses.         *)

Mv(s, e, f, p) == [start |-> s, end |-> e, flag |-> f, promotionType |-> p]

\* One pseudo-legal move of a position: the move, the position it leads to,
\* whether it leaves the mover's king safe, the type of the moving piece
\* (board.squares[move.start].type) and whether it is a pawn move or a capture.
MR(m, t, l, pc) ==
    [mv |-> m, to |-> t, legal |-> l, piece |-> pc,
     irrev |-> (pc = 1 \/ m.flag \in 1..5)]

\* A position: its pseudo-legal moves in generation order, its static
\* evaluation for the side to move, and whether the side to move is in check.
PS(ms, e, c) == [moves |-> ms, eval |-> e, inCheck |-> c]

\* "tree": a root with two moves, two replies to each, four quiet leaves whose
\* evaluations are the game's parameters.
TreePos(e, p) ==
    CASE p = 0 -> PS(<<MR(Mv(1, 2, 0, 0), 1, TRUE, 2), MR(Mv(3, 4, 0, 0), 2, TRUE, 2)>>, 0, FALSE)
      [] p = 1 -> PS(<<MR(Mv(5, 6, 0, 0), 3, TRUE, 2), MR(Mv(7, 8, 0, 0), 4, TRUE, 2)>>, 1, FALSE)
      [] p = 2 -> PS(<<MR(Mv(5, 6, 0, 0), 5, TRUE, 2), MR(Mv(7, 8, 0, 0), 6, TRUE, 2)>>, -1, FALSE)
      [] p \in 3..6 -> PS(<<>>, e[p - 2], FALSE)
      [] OTHER -> PS(<<>>, 0, FALSE)

\* "diamond": two move orders lead from the root to the same quiet position 3.
DiamondPos(e, p) ==
    CASE p = 0 -> PS(<<MR(Mv(1, 2, 0, 0), 1, TRUE, 2), MR(Mv(3, 4, 0, 0), 2, TRUE, 2)>>, 0, FALSE)
      [] p = 1 -> PS(<<MR(Mv(3, 4, 0, 0), 3, TRUE, 2)>>, 0, FALSE)
      [] p = 2 -> PS(<<MR(Mv(1, 2, 0, 0), 3, TRUE, 2)>>, 0, FALSE)
      [] p = 3 -> PS(<<>>, e[1], FALSE)
      [] OTHER -> PS(<<>>, 0, FALSE)

\* "mate": the first root move mates (position 1: in check, its only
\* pseudo-legal move is illegal), the second stalemates (position 2), the third
\* is a quiet move with a reply.
MatePos(e, p) ==
    CASE p = 0 -> PS(<<MR(Mv(1, 2, 0, 0), 1, TRUE, 5), MR(Mv(3, 4, 0, 0), 2, TRUE, 5),
                       MR(Mv(5, 6, 0, 0), 3, TRUE, 2)>>, 0, FALSE)
      [] p = 1 -> PS(<<MR(Mv(7, 8, 0, 0), 7, FALSE, 6)>>, e[1], TRUE)
      [] p = 2 -> PS(<<MR(Mv(7, 8, 0, 0), 7, FALSE, 6)>>, e[2], FALSE)
      [] p = 3 -> PS(<<MR(Mv(7, 6, 0, 0), 5, TRUE, 6)>>, e[3], FALSE)
      [] OTHER -> PS(<<>>, 0, FALSE)

\* "rep": the reversible moves 0 -> 1 -> 2 -> 3 -> 0 form a cycle; the root
\* also has a pawn move to the quiet position 4.
RepPos(e, p) ==
    CASE p = 0 -> PS(<<MR(Mv(1, 2, 0, 0), 1, TRUE, 2), MR(Mv(3, 4, 0, 0), 4, TRUE, 1)>>, 0, FALSE)
      [] p = 1 -> PS(<<MR(Mv(5, 6, 0, 0), 2, TRUE, 2)>>, e[1], FALSE)
      [] p = 2 -> PS(<<MR(Mv(2, 1, 0, 0), 3, TRUE, 2)>>, 0, FALSE)
      [] p = 3 -> PS(<<MR(Mv(6, 5, 0, 0), 0, TRUE, 2)>>, 0, FALSE)
      [] p = 4 -> PS(<<>>, e[2], FALSE)
      [] OTHER -> PS(<<>>, 0, FALSE)

\* "cap": captures at the horizon. The root's pawn takes a bishop (position 1,
\* where a knight can retake and the king's capture is illegal), or a quiet
\* move leads to position 2, where a rook can take a queen or a pawn.
CapPos(e, p) ==
    CASE p = 0 -> PS(<<MR(Mv(3, 4, 0, 0), 2, TRUE, 2), MR(Mv(1, 2, 3, 0), 1, TRUE, 1)>>, 0, FALSE)
      [] p = 1 -> PS(<<MR(Mv(6, 2, 1, 0), 7, FALSE, 6), MR(Mv(5, 2, 1, 0), 3, TRUE, 2)>>, e[1], FALSE)
      [] p = 2 -> PS(<<MR(Mv(7, 8, 5, 0), 5, TRUE, 4), MR(Mv(7, 6, 1, 0), 6, TRUE, 4)>>,
                     e[2], FALSE)
      [] p = 3 -> PS(<<>>, e[3], FALSE)
      [] p = 5 -> PS(<<>>, e[4], FALSE)
      [] OTHER -> PS(<<>>, 0, FALSE)

Position(g, p) ==
    CASE g.name = "tree" -> TreePos(g.e, p)
      [] g.name = "diamond" -> DiamondPos(g.e, p)
      [] g.name = "mate" -> MatePos(g.e, p)
      [] g.name = "rep" -> RepPos(g.e, p)
      [] OTHER -> CapPos(g.e, p)

\* A game: the rules above, and the state of the board handed to the search
\* (the root is position 0 with WHITE to move).
GM(n, e, h, ir, c) ==
    [name |-> n, e |-> e, hist |-> h, irr |-> ir, clock |-> c, prior |-> "empty"]

\* board.hashCode: positions are told apart by their hash.
HashCode(p) == p

InitBoard(g) ==
    [pos |-> 0, sideToMove |-> 0, halfMoveClock |-> g.clock,
     positionHistory |-> g.hist, irreversibleIndices |-> g.irr, moveStack |-> <<>>]

\* The generator's record of move m in the board's position. A move that is
\* none of the position's cannot be played: it is taken back as an illegal one.
MoveRecOf(g, b, m) ==
    LET ms == Position(g, b.pos).moves
    IN  IF \E k \in 1..Len(ms) : ms[k].mv = m
        THEN ms[CHOOSE k \in 1..Len(ms) : ms[k].mv = m]
        ELSE MR(m, b.pos, FALSE, 0)

\* ChessBoard::makeMove: the hash of the position left behind goes on the
\* history; a pawn move or capture records its index and resets the clock.
makeMove(g, b, m) ==
    LET r == MoveRecOf(g, b, m)
    IN  [pos |-> r.to,
         sideToMove |-> 1 - b.sideToMove,
         halfMoveClock |-> IF r.irrev THEN 0 ELSE b.halfMoveClock + 1,
         positionHistory |-> Append(b.positionHistory, HashCode(b.pos)),
         irreversibleIndices |->
             IF r.irrev THEN Append(b.irreversibleIndices, Len(b.positionHistory))
             ELSE b.irreversibleIndices,
         moveStack |-> Append(b.moveStack,
             [pos |-> b.pos, halfMoveClock |-> b.halfMoveClock, irrev |-> r.irrev])]

Front(s) == SubSeq(s, 1, Len(s) - 1)

\* ChessBoard::unMakeMove: undoes the last move made.
unMakeMove(b) ==
    LET u == b.moveStack[Len(b.moveStack)]
    IN  [pos |-> u.pos,
         sideToMove |-> 1 - b.sideToMove,
         halfMoveClock |-> u.halfMoveClock,
         positionHistory |-> Front(b.positionHistory),
         irreversibleIndices |->
             IF u.irrev THEN Front(b.irreversibleIndices) ELSE b.irreversibleIndices,
         moveStack |-> Front(b.moveStack)]

\* MoveGenerator::pseudoLegalMoves and tacticalMoves (captures and promotions).
pseudoLegalMoves(g, b) == Position(g, b.pos).moves

IsTactical(m) == m.flag \in 1..5 \/ m.promotionType # 0

tacticalMoves(g, b) ==
    LET T(r) == IsTactical(r.mv) IN SelectSeq(Position(g, b.pos).moves, T)

\* MoveGenerator::inCheck(board, board.sideToMove).
inCheck(g, b) == Position(g, b.pos).inCheck

\* Evaluator::evaluate.
evaluate(g, b) == Position(g, b.pos).eval

\* mg_value of Evaluator.h: the pieces' middle-game values, pawn to king.
mg_value == <<82, 337, 365, 477, 1025, 0>>

QUEEN == 5

PAWN == 1

----------------------------------------------------------------------------
(* Move ordering                                                           *)

\* A value no move of a game equals: what a read that matches none of the
\* node's moves yields.
NO_MATCH == Mv(-1, -1, -1, -1)

\* scoreMoves, line 226: the values the test "lastPV.size() - 1 <= ply &&
\* lastPV[ply] == move" can compare the moves with. The subtraction is unsigned,
\* so an empty lastPV is never read; lastPV[ply] is read for every ply from
\* size - 1 on, and from size on the read is past the vector's end: it yields
\* any value, one of the node's moves or none of them.
PVReads(pv, ply, moves) ==
    IF Len(pv) = 0 \/ Len(pv) - 1 > ply THEN {NO_MATCH}
    ELSE IF ply < Len(pv) THEN {pv[ply + 1]}
    ELSE {moves[k].mv : k \in 1..Len(moves)} \cup {NO_MATCH}

HistoryAt(h, side, m) ==
    IF <<side, m.start, m.end>> \in DOMAIN h THEN h[<<side, m.start, m.end>>] ELSE 0

\* scoreMoves, lines 223-248: the priority of one move; pvMove is the value
\* lastPV[ply] was read as.
MoveScore(r, pvMove, hashMove, killers, h, side) ==
    LET m == r.mv
        capture == mg_value[m.flag] - mg_value[r.piece]
        nudged == IF capture = 0 THEN 1 ELSE capture
    IN  IF m = pvMove THEN INT32_MIN
        ELSE IF m = hashMove THEN 2^30
        ELSE IF m.promotionType # 0 THEN mg_value[m.promotionType] - mg_value[1]
        ELSE IF m.flag = 0 \/ m.flag >= 7
             THEN IF m = killers[1] \/ m = killers[2] THEN 2^14
                  ELSE HistoryAt(h, side, m)
        ELSE IF m.flag = 6 THEN 2^16
        ELSE IF nudged > 0 THEN nudged * (2^16) ELSE nudged

scoreMoves(moves, pvMove, hashMove, killers, h, side) ==
    [k \in 1..Len(moves) |->
        [move |-> moves[k].mv,
         score |-> MoveScore(moves[k], pvMove, hashMove, killers, h, side)]]

\* scoreTacticalMoves, lines 259-272.
TacticalScore(r, hashMove) ==
    IF r.mv = hashMove THEN 2^30
    ELSE IF r.mv.promotionType # 0 THEN mg_value[r.mv.promotionType] - mg_value[1]
    ELSE mg_value[r.mv.flag] - mg_value[r.piece]

scoreTacticalMoves(moves, hashMove) ==
    [k \in 1..Len(moves) |->
        [move |-> moves[k].mv, score |-> TacticalScore(moves[k], hashMove)]]

\* The scan that looks no further than index.
KeepIndex(moves, i, selectedIndex) == selectedIndex

\* selectMove, lines 277-287: the scan for the first move of highest score from
\* index on (indices count from 1 here).
RECURSIVE SelectScan(_, _, _)
SelectScan(moves, i, selectedIndex) ==
    IF i > Len(moves) THEN selectedIndex
    ELSE SelectScan(moves, i + 1,
                    IF moves[i].score > moves[selectedIndex].score THEN i
                    ELSE selectedIndex)

\* selectMove: the list after the swap, and the move returned.
selectMove(moves, index) ==
    LET selectedIndex == SelectScan(moves, index + 1, index)
        selected == moves[selectedIndex]
    IN  [moves |-> [[moves EXCEPT ![selectedIndex] = moves[index]] EXCEPT ![index] = selected],
         move |-> selected.move]

\* storeKillerMove, lines 294-308, on killerMoves[ply] and killerMoveIndexOne.
storeKillerMove(killers, indexOne, move) ==
    IF (move.flag = 0 \/ move.flag >= 7) /\ move.promotionType = 0
    THEN IF killers[1] = move \/ killers[2] = move
         THEN [killers |-> killers, indexOne |-> indexOne]
         ELSE IF indexOne \/ killers[1] = NULL_MOVE
              THEN [killers |-> <<move, killers[2]>>, indexOne |-> FALSE]
              ELSE [killers |-> <<killers[1], move>>, indexOne |-> TRUE]
    ELSE [killers |-> killers, indexOne |-> indexOne]

----------------------------------------------------------------------------
(* Search::getTransposition, lines 336-365: the probe's verdict, with the   *)
(* table after the probe (its counters move) and the window and hash move   *)
(* it leaves to the caller.                                                  *)

\* The probe without the test of the stored depth.
ProbeAnyDepth(entry, depth, alpha, beta) ==
    LET miss == [hit |-> FALSE, score |-> 0, alpha |-> alpha, beta |-> beta,
                 hashMove |-> NULL_MOVE]
        cut == [miss EXCEPT !.hit = TRUE, !.score = entry.score]
    IN  CASE entry.nodeType = "EXACT" -> cut
          [] entry.nodeType = "UPPERBOUND" ->
               IF entry.score <= alpha THEN cut
               ELSE [miss EXCEPT !.hashMove = entry.bestMove, !.beta = Min(beta, entry.score)]
          [] entry.nodeType = "LOWERBOUND" ->
               IF entry.score >= beta THEN cut
               ELSE [miss EXCEPT !.hashMove = entry.bestMove, !.alpha = Max(alpha, entry.score)]
          [] OTHER -> miss

ProbeEntry(entry, depth, alpha, beta) ==
    LET miss == [hit |-> FALSE, score |-> 0, alpha |-> alpha, beta |-> beta,
                 hashMove |-> NULL_MOVE]
        cut == [miss EXCEPT !.hit = TRUE, !.score = entry.score]
    IN  IF entry.depth >= depth
        THEN CASE entry.nodeType = "EXACT" -> cut
               [] entry.nodeType = "UPPERBOUND" ->
                    IF entry.score <= alpha THEN cut
                    ELSE [miss EXCEPT !.hashMove = entry.bestMove,
                                      !.beta = Min(beta, entry.score)]
               [] entry.nodeType = "LOWERBOUND" ->
                    IF entry.score >= beta THEN cut
                    ELSE [miss EXCEPT !.hashMove = entry.bestMove,
                                      !.alpha = Max(alpha, entry.score)]
               [] OTHER -> miss
        ELSE miss

getTransposition(t, hash, depth, ply, alpha, beta, u) ==
    LET c == contains(t, hash)
        g == getEntry(c.table, hash, ply, u)
    IN  IF c.found
        THEN [table |-> g.table, probe |-> ProbeEntry(g.entry, depth, alpha, beta)]
        ELSE [table |-> c.table,
              probe |-> [hit |-> FALSE, score |-> 0, alpha |-> alpha, beta |-> beta,
                         hashMove |-> NULL_MOVE]]

----------------------------------------------------------------------------
(* The worker's call stack. A frame is one call of alphaBeta ("ab") or      *)
(* quiesce ("q") with its parameters and locals; pc is "entry" before the   *)
(* call's first statement, "loop" at the head of its move loop, "wait"      *)
(* while a child call runs. entry is the board as the call found it.        *)
(* Two fields are history: bestDraw, whether bestMove was scored as a       *)
(* repetition draw, and tainted, whether a score the call has used came,    *)
(* directly or through its descendants, from a call that returned 0 on      *)
(* seeing stop.                                                              *)

NewFrame(fn, depth, alpha, beta, ply, b) ==
    [fn |-> fn, depth |-> depth, alpha |-> alpha, beta |-> beta, ply |-> ply,
     pc |-> "entry", moves |-> <<>>, i |-> 1, hasLegalMoves |-> FALSE,
     nodeType |-> "UPPERBOUND", bestMove |-> NULL_MOVE, bestScore |-> INT32_MIN,
     noStore |-> FALSE, move |-> NULL_MOVE, threefold |-> FALSE, entry |-> b,
     bestDraw |-> FALSE, tainted |-> FALSE]

Top == frames[Len(frames)]

\* What a step of the search did: the call it belongs to, whether the call
\* went on ("enter", "next"), called a child ("call") or returned ("return",
\* with the return path and value), the move it made and what the draw test
\* said of it, the score it processed, whether it called setEntry, and, for a
\* return, whether the board is as the call found it, the score and the move
\* of the entry it passed to setEntry, and the call's two history fields.
NoEvent ==
    [op |-> "none", path |-> "", fn |-> "", depth |-> 0, ply |-> 0, pos |-> 0,
     move |-> NULL_MOVE, draw |-> FALSE, threefold |-> FALSE, score |-> 0,
     ret |-> 0, set |-> FALSE, lifo |-> TRUE, wscore |-> 0, wmove |-> NULL_MOVE,
     bestDraw |-> FALSE, tainted |-> FALSE]

Event(op, path, f) ==
    [NoEvent EXCEPT !.op = op, !.path = path, !.fn = f.fn, !.depth = f.depth,
                    !.ply = f.ply, !.pos = f.entry.pos]

\* The outcome of a step: the call stack, the value returned (if the call
\* returned), the board, the table, the killer and history tables, the event.
Returns(f, path, value, b, t, km, kio, h, set) ==
    [frames |-> Front(frames), wret |-> value, board |-> b, tt |-> t,
     killerMoves |-> km, killerMoveIndexOne |-> kio, history |-> h,
     ev |-> [Event("return", path, f) EXCEPT !.ret = value, !.set = set,
                                             !.lifo = (b = f.entry),
                                             !.move = f.move, !.draw = FALSE,
                                             !.threefold = f.threefold,
                                             !.wscore = IF path = "cutoff" THEN value
                                                        ELSE f.bestScore,
                                             !.wmove = IF path = "cutoff" THEN f.move
                                                       ELSE f.bestMove,
                                             !.bestDraw = f.bestDraw,
                                             !.tainted = f.tainted]]

Continues(op, path, f2, b, t) ==
    [frames |-> [frames EXCEPT ![Len(frames)] = f2], wret |-> wret, board |-> b,
     tt |-> t, killerMoves |-> killerMoves, killerMoveIndexOne |-> killerMoveIndexOne,
     history |-> history, ev |-> [Event(op, path, f2) EXCEPT !.move = f2.move]]

Calls(f2, child, b) ==
    [frames |-> Append([frames EXCEPT ![Len(frames)] = f2], child), wret |-> wret,
     board |-> b, tt |-> tt, killerMoves |-> killerMoves,
     killerMoveIndexOne |-> killerMoveIndexOne, history |-> history,
     ev |-> [Event("call", "call", f2) EXCEPT !.move = f2.move]]

Entry(hash, move, depth, score, type) ==
    [key |-> hash, bestMove |-> move, depth |-> depth, score |-> score, nodeType |-> type]

\* threadedSearch's window: INT32_MIN + 1 and INT32_MAX.
RootFrame(depth, b) == NewFrame("ab", depth, INT32_MIN + 1, INT32_MAX, 0, b)

\* alphaBeta, lines 76-95: the stop test, the hand-over to quiesce at depth 0,
\* the probe, the mate-distance window, the scored move list. s is the value
\* stop is read as, pvMove the value lastPV[ply] is read as.
alphaBetaEntry(f, s, pvMove) ==
    LET p == getTransposition(tt, HashCode(board.pos), f.depth, f.ply, f.alpha, f.beta, ub)
        alpha == Max(p.probe.alpha, -MATE_SCORE + f.ply)
        beta == Min(p.probe.beta, MATE_SCORE - f.ply)
        moves == scoreMoves(pseudoLegalMoves(game, board), pvMove, p.probe.hashMove,
                            killerMoves[f.ply], history, board.sideToMove)
    IN  IF s THEN Returns(f, "stop", 0, board, tt, killerMoves, killerMoveIndexOne, history, FALSE)
        ELSE IF f.depth = 0
        THEN Continues("enter", "leaf", NewFrame("q", 0, f.alpha, f.beta, f.ply, board), board, tt)
        ELSE IF p.probe.hit
        THEN Returns(f, "tt", p.probe.score, board, p.table,
                     killerMoves, killerMoveIndexOne, history, FALSE)
        ELSE IF alpha >= beta
        THEN Returns(f, "clamp", alpha, board, p.table,
                     killerMoves, killerMoveIndexOne, history, FALSE)
        ELSE Continues("enter", "loop",
                       [f EXCEPT !.alpha = alpha, !.beta = beta, !.pc = "loop", !.moves = moves],
                       board, p.table)

\* quiesce, lines 166-185: the stop test, stand pat, the delta cutoff, the
\* probe, the scored tactical moves.
quiesceEntry(f, s) ==
    LET stand_pat == evaluate(game, board)
        alpha == IF f.alpha < stand_pat THEN stand_pat ELSE f.alpha
        p == getTransposition(tt, HashCode(board.pos), f.depth, f.ply, alpha, f.beta, ub)
        moves == scoreTacticalMoves(tacticalMoves(game, board), p.probe.hashMove)
    IN  IF s THEN Returns(f, "stop", 0, board, tt, killerMoves, killerMoveIndexOne, history, FALSE)
        ELSE IF stand_pat >= f.beta
        THEN Returns(f, "standpat", f.beta, board, tt,
                     killerMoves, killerMoveIndexOne, history, FALSE)
        ELSE IF stand_pat + mg_value[QUEEN] < alpha
        THEN Returns(f, "delta", alpha, board, tt,
                     killerMoves, killerMoveIndexOne, history, FALSE)
        ELSE IF p.probe.hit
        THEN Returns(f, "tt", p.probe.score, board, p.table,
                     killerMoves, killerMoveIndexOne, history, FALSE)
        ELSE Continues("enter", "loop",
                       [f EXCEPT !.alpha = p.probe.alpha, !.beta = p.probe.beta,
                                 !.pc = "loop", !.moves = moves],
                       board, p.table)

\* alphaBeta, lines 110-112: the fifty-move test, made after the move. The
\* square the piece left holds no piece, so squares[move.start].type is 0.
SquareTypeAfterMove(b, move) == 0

FiftyMoveDraw(b, move) ==
    b.halfMoveClock >= 100
    /\ ~(SquareTypeAfterMove(b, move) = PAWN \/ move.flag \in 1..5)

\* The scan without the test against the last irreversible index.
RECURSIVE ScanWholeHistory(_, _, _)
ScanWholeHistory(b, j, repetitions) ==
    IF j >= 0
    THEN LET r == IF b.positionHistory[j + 1] = HashCode(b.pos) THEN repetitions + 1
                  ELSE repetitions
         IN  IF r = 2 THEN TRUE ELSE ScanWholeHistory(b, j - 2, r)
    ELSE FALSE

\* alphaBeta, lines 115-125: the scan of positionHistory from index size - 4
\* down in steps of 2, while the index is past the last irreversible one
\* (indices count from 0, as in the code).
RECURSIVE ThreefoldScan(_, _, _)
ThreefoldScan(b, j, repetitions) ==
    IF j >= 0 /\ (b.irreversibleIndices = <<>>
                  \/ b.irreversibleIndices[Len(b.irreversibleIndices)] < j)
    THEN LET r == IF b.positionHistory[j + 1] = HashCode(b.pos) THEN repetitions + 1
                  ELSE repetitions
         IN  IF r = 2 THEN TRUE ELSE ThreefoldScan(b, j - 2, r)
    ELSE FALSE

Threefold(b) == ThreefoldScan(b, Len(b.positionHistory) - 4, 1)

\* The move is left on the board.
NoUndo(b) == b

\* Lines 100-103 and 191-194: the move that leaves the mover in check is undone.
UndoIllegal(b) == unMakeMove(b)

\* Lines 129 and 196: the move is undone when the child call has returned.
UndoSearched(b) == unMakeMove(b)

HistoryAdd(h, side, m, d) ==
    LET k == <<side, m.start, m.end>>
    IN  [x \in DOMAIN h \cup {k} |-> IF x = k THEN HistoryAt(h, side, m) + d ELSE h[x]]

\* alphaBeta, lines 131-153, and quiesce, lines 197-212: what the node does
\* with the score of the move f.move; b is the board with the move undone.
AfterScore(f, score, b, s) ==
    LET hash == HashCode(b.pos)
        quiet == f.fn = "ab" /\ (f.move.flag = 0 \/ f.move.flag >= 7)
        sk == storeKillerMove(killerMoves[f.ply], killerMoveIndexOne, f.move)
        km == IF quiet THEN [killerMoves EXCEPT ![f.ply] = sk.killers] ELSE killerMoves
        kio == IF quiet THEN sk.indexOne ELSE killerMoveIndexOne
        h == IF quiet THEN HistoryAdd(history, b.sideToMove, f.move, f.depth * f.depth)
             ELSE history
        t == IF ~f.threefold
             THEN setEntry(tt, hash, Entry(hash, f.move, f.depth, score, "LOWERBOUND"), f.ply, ub)
             ELSE tt
        next == [f EXCEPT !.i = @ + 1, !.pc = "loop"]
    IN  IF s THEN Returns(f, "stop2", 0, b, tt, killerMoves, killerMoveIndexOne, history, FALSE)
        ELSE IF score >= f.beta
        THEN Returns(f, "cutoff", score, b, t, km, kio, h, ~f.threefold)
        ELSE IF score > f.alpha
        THEN Continues("next", "raise",
                       [next EXCEPT !.alpha = score, !.bestScore = score,
                                    !.bestMove = f.move, !.nodeType = "EXACT",
                                    !.bestDraw = f.threefold], b, tt)
        ELSE IF score > f.bestScore
        THEN Continues("next", "best",
                       [next EXCEPT !.bestScore = score, !.bestMove = f.move,
                                    !.noStore = IF f.fn = "ab" THEN f.threefold ELSE @,
                                    !.bestDraw = f.threefold], b, tt)
        ELSE Continues("next", "low", next, b, tt)

\* The mate score without the distance from the root.
MateScoreAtRoot(check, ply) == IF check THEN -MATE_SCORE ELSE 0

\* alphaBeta, lines 155-158: the score of a node without a legal move.
TerminalScore(check, ply) == IF check THEN -(MATE_SCORE - ply) ELSE 0

\* alphaBeta, lines 155-162, and quiesce, lines 214-216: the end of the move loop.
LoopExit(f) ==
    LET hash == HashCode(board.pos)
        store == f.fn = "q" \/ ~f.noStore
        t == IF store
             THEN setEntry(tt, hash, Entry(hash, f.bestMove, f.depth, f.bestScore, f.nodeType),
                           f.ply, ub)
             ELSE tt
    IN  IF f.fn = "ab" /\ ~f.hasLegalMoves
        THEN Returns(f, "terminal", TerminalScore(inCheck(game, board), f.ply), board, tt,
                     killerMoves, killerMoveIndexOne, history, FALSE)
        ELSE Returns(f, "normal", f.alpha, board, t,
                     killerMoves, killerMoveIndexOne, history, store)

\* One pass through the head of the move loop, lines 97-128 and 187-195: the
\* next move is selected and made; an illegal one is undone, a drawn one is
\* scored 0 at once, any other is searched by a child call.
LoopStep(f, s) ==
    LET sel == selectMove(f.moves, f.i)
        made == makeMove(game, board, sel.move)
        legal == MoveRecOf(game, board, sel.move).legal
        fifty == f.fn = "ab" /\ FiftyMoveDraw(made, sel.move)
        threefold == f.fn = "ab" /\ ~fifty /\ Threefold(made)
        f1 == [f EXCEPT !.moves = sel.moves, !.move = sel.move, !.threefold = threefold,
                        !.hasLegalMoves = legal \/ @]
        drawn == AfterScore(f1, 0, UndoSearched(made), s)
    IN  IF f.i > Len(f.moves) THEN LoopExit(f)
        ELSE IF ~legal
        THEN Continues("next", "illegal", [f1 EXCEPT !.i = @ + 1], UndoIllegal(made), tt)
        ELSE IF fifty \/ threefold
        THEN [drawn EXCEPT !.ev.draw = TRUE, !.ev.threefold = threefold,
                           !.ev.move = sel.move]
        ELSE Calls([f1 EXCEPT !.pc = "wait"],
                   NewFrame(f.fn, f.depth - 1, -f.beta, -f.alpha, f.ply + 1, made), made)

\* Lines 128-129 and 195-196: the child call has returned wret.
AfterCall(f, s) ==
    LET cancelled == ev.op = "return" /\ (ev.path \in {"stop", "stop2"} \/ ev.tainted)
        o == AfterScore([f EXCEPT !.tainted = @ \/ cancelled], Neg(wret, ub),
                        UndoSearched(board), s)
    IN  [o EXCEPT !.ev.score = Neg(wret, ub)]

----------------------------------------------------------------------------
(* Search::collectPV, lines 313-334: the walk along the EXACT entries from  *)
(* the board's position, and the moves undone afterwards.                    *)

RECURSIVE UndoTimes(_, _)
UndoTimes(b, pvDepth) == IF pvDepth > 0 THEN UndoTimes(unMakeMove(b), pvDepth - 1) ELSE b

RECURSIVE CollectLoop(_, _, _, _, _, _, _)
CollectLoop(g, u, t, b, pv, pvPositions, gameOver) ==
    LET hash == HashCode(b.pos)
        c == contains(t, hash)
        r == getEntry(c.table, hash, 0, u)
        stopHere == [table |-> c.table, board |-> b, pv |-> pv, gameOver |-> gameOver]
    IN  IF c.found /\ hash \notin pvPositions
        THEN IF r.entry.nodeType # "EXACT"
             THEN [stopHere EXCEPT !.table = r.table]
             ELSE CollectLoop(g, u, r.table, makeMove(g, b, r.entry.bestMove),
                              Append(pv, r.entry.bestMove), pvPositions \cup {hash},
                              gameOver \/ Abs(r.entry.score, u) = MATE_SCORE)
        ELSE stopHere

collectPV(g, u, t, b) ==
    LET w == CollectLoop(g, u, t, b, <<>>, {}, FALSE)
    IN  [w EXCEPT !.board = UndoTimes(w.board, Len(w.pv))]

----------------------------------------------------------------------------
(* Bounds of the model.                                                    *)

\* The controller starts no search deeper than MaxDepth.
MaxDepth == 2

\* The time budgets tried are 0..MaxTime; the clock is counted in budget units.
MaxTime == 1

----------------------------------------------------------------------------
(* The exhaustive search the pruned one is compared with: plain negamax to  *)
(* the same depth, with the same draw rules, mate scores and stand-pat       *)
(* quiescence, and no window, cache or ordering.                             *)

RECURSIVE SeqMax(_, _)
SeqMax(s, least) == IF s = <<>> THEN least ELSE Max(s[1], SeqMax(Tail(s), least))

RECURSIVE RefQuiesce(_, _)
RefQuiesce(g, b) ==
    LET L(r) == r.legal
        ms == SelectSeq(tacticalMoves(g, b), L)
    IN  SeqMax([k \in 1..Len(ms) |-> -RefQuiesce(g, makeMove(g, b, ms[k].mv))],
               evaluate(g, b))

RECURSIVE RefMoveScore(_, _, _, _, _)
RECURSIVE RefNegamax(_, _, _, _)
RefNegamax(g, b, depth, ply) ==
    LET L(r) == r.legal
        ms == SelectSeq(pseudoLegalMoves(g, b), L)
    IN  IF depth = 0 THEN RefQuiesce(g, b)
        ELSE IF ms = <<>> THEN TerminalScore(inCheck(g, b), ply)
        ELSE SeqMax([k \in 1..Len(ms) |-> RefMoveScore(g, b, ms[k].mv, depth, ply)],
                    -MATE_SCORE)

RefMoveScore(g, b, m, depth, ply) ==
    LET made == makeMove(g, b, m)
    IN  IF FiftyMoveDraw(made, m) \/ Threefold(made) THEN 0
        ELSE -RefNegamax(g, made, depth - 1, ply + 1)

----------------------------------------------------------------------------
(* The games and the tables the search is started on.                      *)

TreeGames ==
    {GM("tree", e, <<>>, <<>>, 0) :
        e \in {<<3, -2, 4, 1>>, <<-2, 3, 1, 4>>, <<1, 4, 3, -2>>, <<4, 1, -2, 3>>}}

DiamondGames == {GM("diamond", <<a>>, <<>>, <<>>, 0) : a \in {-2, 3}}

MateGames == {GM("mate", e, <<>>, <<>>, 0) : e \in {<<2, -3, 1>>, <<-4, 3, 1>>}}

\* The cycle's positions already on the board's history: never, once, twice;
\* once before an irreversible move (as hashes that collide can), twice after
\* one; with the half-move clock one short of a hundred; and with position 2
\* alone on the history, so that the reply to the first root move repeats.
RepGames ==
    {GM("rep", <<-5, 1>>, <<>>, <<>>, 0),
     GM("rep", <<-5, 1>>, <<0, 1, 2, 3>>, <<>>, 4),
     GM("rep", <<-5, 1>>, <<0, 1, 2, 3, 0, 1, 2, 3>>, <<>>, 8),
     GM("rep", <<-5, 1>>, <<0, 1, 2, 3>>, <<2>>, 1),
     GM("rep", <<-5, 1>>, <<9, 1, 2, 3, 0, 1, 2, 3>>, <<0>>, 7),
     GM("rep", <<-5, 1>>, <<>>, <<>>, 99),
     GM("rep", <<-5, 1>>, <<8, 9, 2, 3>>, <<>>, 4)}

CapGames ==
    {GM("cap", e, <<>>, <<>>, 0) : e \in {<<0, 0, 1, -1>>, <<4, 3, 2, -2000>>, <<4, -6, -3, 7>>}}

Games == TreeGames \cup DiamondGames \cup MateGames \cup RepGames \cup CapGames

\* The process-wide table as earlier top-level calls can have left it: empty;
\* the root's slot taken by a deep EXACT entry of another position (key -4
\* shares slot 0 with the root's key 0); a LOWERBOUND entry for the root itself,
\* as a search in which the root was an inner node leaves it; the EXACT entry
\* of depth 1 for the position after the first root move. "bound" is a
\* LOWERBOUND entry of score 0 for that position, under which a repetition
\* in reply to the first root move does not raise alpha.
Priors == {"foreign", "lower", "child"}

\* The runs: every game on an empty table, the tree games also on the others,
\* a game with a repeating reply also on "bound".
Runs ==
    Games \cup {[g EXCEPT !.prior = p] : g \in TreeGames, p \in Priors}
          \cup {[GM("rep", <<5, -1>>, <<8, 9, 2, 3>>, <<>>, 4) EXCEPT !.prior = "bound"]}

InitialTable(g) ==
    LET rootMove == Position(g, 0).moves[1].mv
        child == makeMove(g, InitBoard(g), rootMove)
        reply == CHOOSE m \in {Position(g, child.pos).moves[k].mv :
                                  k \in 1..Len(Position(g, child.pos).moves)} :
                     RefMoveScore(g, child, m, 1, 1) = RefNegamax(g, child, 1, 1)
        with(e) == [InitTable EXCEPT !.entries[SlotIndex(e.key)] = e]
    IN  CASE g.prior = "foreign" -> with(Entry(-4, Mv(1, 2, 0, 0), 9, 0, "EXACT"))
          [] g.prior = "lower" ->
                with(Entry(0, rootMove, 2, RefNegamax(g, InitBoard(g), 2, 0), "LOWERBOUND"))
          [] g.prior = "child" ->
                with(Entry(HashCode(child.pos), reply, 1, RefNegamax(g, child, 1, 1), "EXACT"))
          [] g.prior = "bound" ->
                with(Entry(HashCode(child.pos), Position(g, child.pos).moves[1].mv, 1, 0,
                           "LOWERBOUND"))
          [] OTHER -> InitTable

----------------------------------------------------------------------------
(* The state machine: the calling thread in Search::search, the worker in   *)
(* threadedSearch, and the clock.                                            *)

\* The calls made on the table directly (none while the search runs).
NoCall == [op |-> "none", n |-> 0]

NoShadow == [i \in 0..(TT_SIZE - 1) |-> [score |-> 0, ply |-> 0, depth |-> 0]]

\* What lastPV[0] yields when lastPV is empty: a vector never assigned has no
\* storage and the read faults; one assigned an empty PV has reserved storage
\* that holds any bytes, those of a root move or of none.
CRASHED == Mv(-2, -2, -2, -2)

FirstOfEmpty(g, assigned) ==
    IF assigned
    THEN {Position(g, 0).moves[k].mv : k \in 1..Len(Position(g, 0).moves)}
         \cup {NULL_MOVE, NO_MATCH}
    ELSE {CRASHED}

\* The values a read of Search::stop yields: the object is gone once
\* Search::search has returned, and a worker left behind reads freed stack.
StopValues == IF cpc = "returned" THEN {TRUE, FALSE} ELSE {stop}

Init ==
    /\ game \in Runs
    /\ tt = InitialTable(game)
    /\ ub \in UBBuilds
    /\ timeAllowed \in 0..MaxTime
    /\ now = 0
    /\ board = InitBoard(game)
    /\ iter = 1
    /\ cpc = "start"
    /\ stop = FALSE
    /\ finished = FALSE
    /\ lastPV = <<>>
    /\ killerMoves = [p \in 0..MaxDepth |-> <<NULL_MOVE, NULL_MOVE>>]
    /\ killerMoveIndexOne = FALSE
    /\ history = <<>>
    /\ wpc = "idle"
    /\ frames = <<>>
    /\ wret = 0
    /\ result = <<>>
    /\ reported = 0
    /\ done = {}
    /\ inTime = FALSE
    /\ rootScore = 0
    /\ ev = NoEvent
    /\ call = NoCall
    /\ shadow = NoShadow

\* The worker's variables take the outcome o of a step of the search.
Apply(o) ==
    /\ frames' = o.frames
    /\ wret' = o.wret
    /\ board' = o.board
    /\ tt' = o.tt
    /\ killerMoves' = o.killerMoves
    /\ killerMoveIndexOne' = o.killerMoveIndexOne
    /\ history' = o.history
    /\ ev' = o.ev
    /\ UNCHANGED <<game, ub, timeAllowed, now, iter, cpc, stop, finished, lastPV, wpc,
                   result, reported, done, inTime, rootScore, call, shadow>>

Running == wpc = "run" /\ frames # <<>>

\* alphaBeta from its first statement to the head of its move loop.
W_AlphaBeta ==
    /\ Running /\ Top.pc = "entry" /\ Top.fn = "ab"
    /\ \E s \in StopValues :
       \E pvMove \in PVReads(lastPV, Top.ply, pseudoLegalMoves(game, board)) :
          Apply(alphaBetaEntry(Top, s, pvMove))

\* quiesce from its first statement to the head of its move loop.
W_Quiesce ==
    /\ Running /\ Top.pc = "entry" /\ Top.fn = "q"
    /\ \E s \in StopValues : Apply(quiesceEntry(Top, s))

\* One pass through the head of a move loop, or the loop's exit.
W_Loop ==
    /\ Running /\ Top.pc = "loop"
    /\ \E s \in StopValues : Apply(LoopStep(Top, s))

\* The child call has returned to the node that made it.
W_AfterCall ==
    /\ Running /\ Top.pc = "wait"
    /\ \E s \in StopValues : Apply(AfterCall(Top, s))

\* threadedSearch, lines 68-71: the root call has returned; finished is set
\* under the mutex.
W_Finish ==
    /\ wpc = "run" /\ frames = <<>>
    /\ wpc' = "notify"
    /\ finished' = TRUE
    /\ rootScore' = wret
    /\ UNCHANGED <<tt, game, ub, timeAllowed, now, board, iter, cpc, stop, lastPV,
                   killerMoves, killerMoveIndexOne, history, frames, wret, result,
                   reported, done, inTime, ev, call, shadow>>

\* threadedSearch, line 72: notify_one, and the thread ends.
W_Notify ==
    /\ wpc = "notify"
    /\ wpc' = "exited"
    /\ inTime' = (now < timeAllowed)
    /\ UNCHANGED <<tt, game, ub, timeAllowed, now, board, iter, cpc, stop, finished,
                   lastPV, killerMoves, killerMoveIndexOne, history, frames, wret,
                   result, reported, done, rootScore, ev, call, shadow>>

\* Search::search, line 22: the worker for depth i is started.
C_Spawn ==
    /\ cpc = "start" /\ iter <= MaxDepth
    /\ cpc' = "lock"
    /\ wpc' = "run"
    /\ frames' = <<RootFrame(iter, board)>>
    /\ inTime' = FALSE
    /\ UNCHANGED <<tt, game, ub, timeAllowed, now, board, iter, stop, finished, lastPV,
                   killerMoves, killerMoveIndexOne, history, wret, result, reported,
                   done, rootScore, ev, call, shadow>>

\* Lines 24-30: the mutex is taken, both flags are cleared, and the wait
\* begins (which gives the mutex up).
C_Lock ==
    /\ cpc = "lock"
    /\ cpc' = "wait"
    /\ stop' = FALSE
    /\ finished' = FALSE
    /\ UNCHANGED <<tt, game, ub, timeAllowed, now, board, iter, lastPV, killerMoves,
                   killerMoveIndexOne, history, wpc, frames, wret, result, reported,
                   done, inTime, rootScore, ev, call, shadow>>

\* A wait without a deadline: it ends only when finished is set.
WaitsForWorker(fin, t, limit) == fin

\* Line 30: wait_for(lk, timeAvailable, pred) blocks until finished is set or
\* the deadline has passed.
WaitReturns(fin, t, limit) == fin \/ t >= limit

\* Line 30: wait_for returns, true when finished is set, false when the
\* deadline has passed and it is not; lines 34-36 on false.
C_Wake ==
    /\ cpc = "wait"
    /\ WaitReturns(finished, now, timeAllowed)
    /\ IF finished
       THEN cpc' = "join" /\ stop' = stop
       ELSE cpc' = "report" /\ stop' = TRUE
    /\ UNCHANGED <<tt, game, ub, timeAllowed, now, board, iter, finished, lastPV,
                   killerMoves, killerMoveIndexOne, history, wpc, frames, wret, result,
                   reported, done, inTime, rootScore, ev, call, shadow>>

\* Line 31: join returns when the worker has ended.
C_Join ==
    /\ cpc = "join" /\ wpc = "exited"
    /\ cpc' = "collect"
    /\ done' = done \cup {iter}
    /\ UNCHANGED <<tt, game, ub, timeAllowed, now, board, iter, stop, finished, lastPV,
                   killerMoves, killerMoveIndexOne, history, wpc, frames, wret, result,
                   reported, inTime, rootScore, ev, call, shadow>>

\* Lines 39-41: the PV is collected into lastPV; the loop ends on a mate
\* score, else goes on with the next depth.
C_CollectPV ==
    /\ cpc = "collect"
    /\ LET c == collectPV(game, ub, tt, board)
       IN  /\ lastPV' = c.pv
           /\ tt' = c.table
           /\ board' = c.board
           /\ ev' = [NoEvent EXCEPT !.op = "return", !.path = "pv", !.fn = "collectPV",
                                    !.depth = iter, !.pos = board.pos,
                                    !.lifo = (c.board = board)]
           /\ IF c.gameOver
              THEN cpc' = "report" /\ iter' = iter
              ELSE cpc' = "start" /\ iter' = iter + 1
    /\ UNCHANGED <<game, ub, timeAllowed, now, stop, finished, killerMoves,
                   killerMoveIndexOne, history, wpc, frames, wret, result, reported,
                   done, inTime, rootScore, call, shadow>>

\* Past MaxDepth the model lets the deadline pass before the next worker
\* takes a step: lines 34-36.
C_Deadline ==
    /\ cpc = "start" /\ iter > MaxDepth
    /\ cpc' = "report"
    /\ stop' = TRUE
    /\ UNCHANGED <<tt, game, ub, timeAllowed, now, board, iter, finished, lastPV,
                   killerMoves, killerMoveIndexOne, history, wpc, frames, wret, result,
                   reported, done, inTime, rootScore, ev, call, shadow>>

\* Lines 43-61: the diagnostic block's evaluation, the counters' reset, and
\* the return of lastPV[0].
C_Return ==
    /\ cpc = "report"
    /\ cpc' = "returned"
    /\ LET c == contains(tt, HashCode(board.pos))
           r == getEntry(c.table, HashCode(board.pos), 0, ub)
       IN  /\ reported' = IF c.found THEN r.entry.score ELSE evaluate(game, board)
           /\ tt' = resetCounters(IF c.found THEN r.table ELSE c.table)
    /\ IF lastPV = <<>>
       THEN \E m \in FirstOfEmpty(game, done # {}) : result' = <<m>>
       ELSE result' = <<lastPV[1]>>
    /\ UNCHANGED <<game, ub, timeAllowed, now, board, iter, stop, finished, lastPV,
                   killerMoves, killerMoveIndexOne, history, wpc, frames, wret, done,
                   inTime, rootScore, ev, call, shadow>>

\* The clock reaches the deadline while the calling thread is at the wait.
Tick ==
    /\ cpc \in {"lock", "wait"}
    /\ now < timeAllowed
    /\ now' = now + 1
    /\ UNCHANGED <<tt, game, ub, timeAllowed, board, iter, cpc, stop, finished, lastPV,
                   killerMoves, killerMoveIndexOne, history, wpc, frames, wret, result,
                   reported, done, inTime, rootScore, ev, call, shadow>>

Next ==
    \/ W_AlphaBeta
    \/ W_Quiesce
    \/ W_Loop
    \/ W_AfterCall
    \/ W_Finish
    \/ W_Notify
    \/ C_Spawn
    \/ C_Lock
    \/ C_Wake
    \/ C_Join
    \/ C_CollectPV
    \/ C_Deadline
    \/ C_Return
    \/ Tick

Spec == Init /\ [][Next]_vars

\* The runs in which progress is checked.
LiveRuns ==
    {GM("tree", <<3, -2, 4, 1>>, <<>>, <<>>, 0), GM("mate", <<2, -3, 1>>, <<>>, <<>>, 0),
     GM("rep", <<-5, 1>>, <<0, 1, 2, 3>>, <<>>, 4)}

InitLive == Init /\ game \in LiveRuns

\* The calling thread's steps outside collectPV; where it stands enables at
\* most one of them.
Controller == C_Spawn \/ C_Lock \/ C_Wake \/ C_Join \/ C_Deadline \/ C_Return

\* collectPV visits a position once (pvPositions) and so ends: the calling
\* thread does not stay in it. This is WF_vars(C_CollectPV), whose step is
\* enabled exactly where cpc = "collect" and leaves it.
CollectEnds == []<>(cpc # "collect")

\* threadedSearch after the root call: lines 69-72.
WorkerEnd == W_Finish \/ W_Notify

\* Scheduling: the calling thread is never held up for ever where it can take
\* a step, the clock goes on, and a worker whose root call has returned goes on
\* to set finished, notify and end. Nothing is assumed of how long the search
\* itself takes: the worker may stay inside alphaBeta for ever.
Fairness == WF_vars(Controller) /\ CollectEnds /\ WF_vars(Tick) /\ WF_vars(WorkerEnd)

FairSpec == InitLive /\ [][Next]_vars /\ Fairness

----------------------------------------------------------------------------
(* The table on its own: the four operations called directly, with          *)
(* arguments from the ranges the search passes.                              *)

\* The number of direct calls in a run.
MaxTTOps == 2

\* Keys 1 and -5 share slot 1.
TTKeys == {1, -5}

TTTypes == {"EXACT", "UPPERBOUND", "LOWERBOUND"}

TTDepths == {1, 2}

TTPlies == {0, 2}

\* Scores: never a mate score (7), a mate score from two plies of depth + ply
\* on (of either sign), always a mate score, and the INT32_MIN quiesce stores.
TTScores == {7, MATE_SCORE - 2, -(MATE_SCORE - 2), MATE_SCORE, INT32_MIN}

InitTT ==
    /\ tt = InitTable
    /\ game = GM("tree", <<3, -2, 4, 1>>, <<>>, <<>>, 0)
    /\ ub \in UBBuilds
    /\ timeAllowed = 0
    /\ now = 0
    /\ board = InitBoard(game)
    /\ iter = 1
    /\ cpc = "start"
    /\ stop = FALSE
    /\ finished = FALSE
    /\ lastPV = <<>>
    /\ killerMoves = [p \in 0..MaxDepth |-> <<NULL_MOVE, NULL_MOVE>>]
    /\ killerMoveIndexOne = FALSE
    /\ history = <<>>
    /\ wpc = "idle"
    /\ frames = <<>>
    /\ wret = 0
    /\ result = <<>>
    /\ reported = 0
    /\ done = {}
    /\ inTime = FALSE
    /\ rootScore = 0
    /\ ev = NoEvent
    /\ call = NoCall
    /\ shadow = NoShadow

\* setEntry(key, entry, ply), with depth + ply at least 1 as in every call the
\* search makes. call keeps the arguments, the slot as it was, and whether
\* write ran; shadow keeps the score as passed and the ply of an accepted write.
TT_setEntry ==
    /\ call.n < MaxTTOps
    /\ \E key \in TTKeys, type \in TTTypes, depth \in TTDepths, ply \in TTPlies,
          score \in TTScores :
          LET entry == Entry(key, Mv(1, 2, 0, 0), depth, score, type)
              t == setEntry(tt, key, entry, ply, ub)
              wrote == t.writes # tt.writes
          IN  /\ depth + ply >= 1
              /\ tt' = t
              /\ call' = [op |-> "setEntry", n |-> call.n + 1, key |-> key, entry |-> entry, ply |-> ply,
                          saved |-> tt.entries[SlotIndex(key)], wrote |-> wrote]
              /\ shadow' = IF wrote
                           THEN [shadow EXCEPT ![SlotIndex(key)] =
                                    [score |-> score, ply |-> ply, depth |-> depth]]
                           ELSE shadow
    /\ UNCHANGED searchVars

\* getEntry(key, ply); call keeps the entry returned.
TT_getEntry ==
    /\ call.n < MaxTTOps
    /\ \E key \in TTKeys, ply \in TTPlies :
          LET r == getEntry(tt, key, ply, ub)
          IN  /\ tt' = r.table
              /\ call' = [op |-> "getEntry", n |-> call.n + 1, key |-> key, ply |-> ply, got |-> r.entry]
    /\ UNCHANGED <<searchVars, shadow>>

\* contains(key).
TT_contains ==
    /\ call.n < MaxTTOps
    /\ \E key \in TTKeys :
          LET c == contains(tt, key)
          IN  /\ tt' = c.table
              /\ call' = [op |-> "contains", n |-> call.n + 1, key |-> key, found |-> c.found]
    /\ UNCHANGED <<searchVars, shadow>>

\* resetCounters().
TT_resetCounters ==
    /\ call.n < MaxTTOps
    /\ tt' = resetCounters(tt)
    /\ call' = [op |-> "resetCounters", n |-> call.n + 1]
    /\ UNCHANGED <<searchVars, shadow>>

\* The requested depths, and the windows <<alpha, beta>> of the probes: the
\* root's window and three windows around the score 7 (the score inside, at
\* alpha, at beta); the search probes with alpha < beta.
TTRequested == {1, 2}

TTBounds == {<<INT32_MIN + 1, INT32_MAX>>, <<6, 8>>, <<7, 8>>, <<6, 7>>}

\* Search::getTransposition(key, depth, ply, score, alpha, beta, hashMove);
\* call keeps the arguments, the slot probed and the probe's outcome.
TT_getTransposition ==
    /\ call.n < MaxTTOps
    /\ \E key \in TTKeys, depth \in TTRequested, ply \in TTPlies, window \in TTBounds :
          LET alpha == window[1]
              beta == window[2]
              r == getTransposition(tt, key, depth, ply, alpha, beta, ub)
          IN  /\ tt' = r.table
              /\ call' = [op |-> "getTransposition", n |-> call.n + 1, key |-> key,
                          depth |-> depth, ply |-> ply, alpha |-> alpha, beta |-> beta,
                          slot |-> tt.entries[SlotIndex(key)], probe |-> r.probe]
    /\ UNCHANGED <<searchVars, shadow>>

NextTT ==
    TT_setEntry \/ TT_getEntry \/ TT_contains \/ TT_resetCounters \/ TT_getTransposition

SpecTT == InitTT /\ [][NextTT]_vars

----------------------------------------------------------------------------
(* Move ordering on its own: scoreMoves applied to a node's move list, then *)
(* selectMove applied for index 0, 1, ... as the move loops do.              *)

\* The longest move list scored.
MaxMoves == 3

\* The moves of the node: a capture of the piece of type flag by a piece of
\* type pc, two quiet moves (the second a castling move), an en-passant
\* capture, a promotion to a queen.
OrdCapture(pc, fl) == MR(Mv(1, 2, fl, 0), 1, TRUE, pc)

QuietA == MR(Mv(3, 4, 0, 0), 1, TRUE, 2)

QuietB == MR(Mv(5, 6, 7, 0), 1, TRUE, 6)

EnPassant == MR(Mv(7, 8, 6, 0), 1, TRUE, 1)

Promotion == MR(Mv(9, 10, 0, 5), 1, TRUE, 1)

\* The lists of one to n different elements of S.
Lists(S, n) ==
    UNION {{l \in [1..k -> S] : \A a, b \in 1..k : a # b => l[a] # l[b]} : k \in 1..n}

\* The history scores tried for the quiet moves.
OrdHistories == {<<>>, HistoryAdd(<<>>, 0, QuietB.mv, 9)}

InitOrd == InitTT /\ ub = "wrap"

\* scoreMoves(moves, ply 0, hashMove) on a list of the node's moves, with the
\* killer moves, history scores and lastPV it finds. call keeps the generator's
\* records and the scored list.
O_scoreMoves ==
    /\ frames = <<>>
    /\ \E pc \in 1..6, fl \in 1..5 :
       \E recs \in Lists({OrdCapture(pc, fl), QuietA, QuietB, EnPassant, Promotion}, MaxMoves) :
       \E killer \in {NULL_MOVE, QuietA.mv}, h \in OrdHistories,
          pv \in {<<>>, <<OrdCapture(pc, fl).mv>>}, hashMove \in {NULL_MOVE, QuietB.mv} :
       \E pvMove \in PVReads(pv, 0, recs) :
          LET km == [killerMoves EXCEPT ![0] = <<killer, NULL_MOVE>>]
              scored == scoreMoves(recs, pvMove, hashMove, km[0], h, board.sideToMove)
          IN  /\ killerMoves' = km
              /\ history' = h
              /\ lastPV' = pv
              /\ frames' = <<[NewFrame("ab", 1, -MATE_SCORE, MATE_SCORE, 0, board)
                                 EXCEPT !.pc = "loop", !.moves = scored]>>
              /\ call' = [op |-> "scoreMoves", n |-> 0, recs |-> recs, scored |-> scored,
                          pvMove |-> pvMove, hashMove |-> hashMove, returned |-> <<>>]
    /\ UNCHANGED <<tt, game, ub, timeAllowed, now, board, iter, cpc, stop, finished,
                   killerMoveIndexOne, wpc, wret, result, reported, done, inTime,
                   rootScore, ev, shadow>>

\* selectMove(moves, i) for the next index of the list. call keeps the list
\* before and after, the move returned, and the moves returned so far.
O_selectMove ==
    /\ frames # <<>> /\ Top.i <= Len(Top.moves)
    /\ LET sel == selectMove(Top.moves, Top.i)
       IN  /\ frames' = <<[Top EXCEPT !.moves = sel.moves, !.move = sel.move, !.i = @ + 1]>>
           /\ call' = [op |-> "selectMove", n |-> Top.i, recs |-> call.recs,
                       scored |-> call.scored, pvMove |-> call.pvMove,
                       hashMove |-> call.hashMove,
                       returned |-> Append(call.returned, sel.move),
                       before |-> Top.moves, after |-> sel.moves, move |-> sel.move]
    /\ UNCHANGED <<tt, game, ub, timeAllowed, now, board, iter, cpc, stop, finished,
                   lastPV, killerMoves, killerMoveIndexOne, history, wpc, wret, result,
                   reported, done, inTime, rootScore, ev, shadow>>

NextOrd == O_scoreMoves \/ O_selectMove

SpecOrd == InitOrd /\ [][NextOrd]_vars

----------------------------------------------------------------------------
(* The claims about the table.                                             *)

\* The slot the last direct call addressed, as it is now.
CallSlot == tt.entries[SlotIndex(call.key)]

\* The slot holds the entry passed to the last setEntry (its score as stored).
TookIncoming ==
    /\ call.wrote
    /\ CallSlot = [call.entry EXCEPT !.score = CallSlot.score]

LeftUnchanged == ~call.wrote /\ CallSlot = call.saved

\* C1: setEntry's replacement policy, whatever the two keys are. An EMPTY slot
\* takes the incoming entry; an EXACT slot of depth d is left unchanged by a
\* non-EXACT write and overwritten by an EXACT write iff the incoming depth is
\* at least d; a non-EXACT slot of depth d is overwritten by every EXACT write
\* and by a non-EXACT write iff the incoming depth is at least d. Every call
\* either overwrites the slot with the incoming entry or leaves it unchanged.
C1_ReplacementPolicy ==
    call.op = "setEntry" =>
        LET saved == call.saved
            new == call.entry
        IN  /\ TookIncoming \/ LeftUnchanged
            /\ saved.nodeType = "EMPTY" => TookIncoming
            /\ (saved.nodeType = "EXACT" /\ new.nodeType # "EXACT") => LeftUnchanged
            /\ (saved.nodeType = "EXACT" /\ new.nodeType = "EXACT") =>
                   (TookIncoming <=> new.depth >= saved.depth)
            /\ (saved.nodeType \in {"UPPERBOUND", "LOWERBOUND"} /\ new.nodeType = "EXACT") =>
                   TookIncoming
            /\ (saved.nodeType \in {"UPPERBOUND", "LOWERBOUND"} /\ new.nodeType # "EXACT") =>
                   (TookIncoming <=> new.depth >= saved.depth)

\* An EXACT entry of one key has been overwritten by an EXACT entry of the same
\* depth and another key.
C1_TieOverwrites ==
    /\ call.op = "setEntry"
    /\ call.saved.nodeType = "EXACT" /\ call.entry.nodeType = "EXACT"
    /\ call.saved.depth = call.entry.depth
    /\ call.saved.key # call.entry.key
    /\ TookIncoming

\* |score| >= k and |score| = k, for a score whose magnitude an int may not hold.
MagnitudeAtLeast(score, k) == score >= k \/ score <= -k

MagnitudeIs(score, k) == score = k \/ score = -k

\* C2: the mate-distance round trip. The entry getEntry returns at ply p2 from
\* a slot whose entry setEntry accepted at ply p1 has a score of magnitude
\* MATE_SCORE - p2 and of the sign passed, if the magnitude of the score passed
\* was at least MATE_SCORE - (depth + p1); else it has the score passed.
C2_MateRoundTrip ==
    (call.op = "getEntry" /\ call.got.nodeType # "EMPTY") =>
        LET passed == shadow[SlotIndex(call.key)]
        IN  IF MagnitudeAtLeast(passed.score, MATE_SCORE - (passed.depth + passed.ply))
            THEN /\ MagnitudeIs(call.got.score, MATE_SCORE - call.ply)
                 /\ (call.got.score > 0) = (passed.score > 0)
            ELSE call.got.score = passed.score

\* A mate score accepted at one ply has been read at another.
C2_ReadAtOtherPly ==
    /\ call.op = "getEntry" /\ call.got.nodeType # "EMPTY"
    /\ shadow[SlotIndex(call.key)].score = -(MATE_SCORE - 2)
    /\ shadow[SlotIndex(call.key)].ply = 2
    /\ call.ply = 0
    /\ call.got.score = -MATE_SCORE

----------------------------------------------------------------------------
(* The claims about Search::search and its worker.                          *)

\* The calling thread left the loop through lines 34-36 at a depth the model
\* searches.
TimedOut == cpc \in {"report", "returned"} /\ stop /\ iter <= MaxDepth

\* C3: the completion hand-off. If the worker of depth d has set finished and
\* notified before the deadline, the calling thread's wait succeeds (it joins,
\* collects and goes on): it does not leave the loop as timed out.
C3_SignalNeverLost == TimedOut => ~inTime

LegalRootMoves ==
    {Position(game, 0).moves[k].mv :
        k \in {j \in 1..Len(Position(game, 0).moves) : Position(game, 0).moves[j].legal}}

\* C4: Search::search returns the first move of the last completed depth's PV,
\* and that PV is non-empty, the move a legal root move, if and only if at
\* least depth 1 completed, whatever the table held before.
C4_LegalMoveIffDepthOne ==
    cpc = "returned" =>
        /\ (done # {}) <=> (lastPV # <<>>)
        /\ lastPV # <<>> => (result = <<lastPV[1]>> /\ lastPV[1] \in LegalRootMoves)

\* C5: for every time budget, 0 included, the calling thread does not leave
\* the loop before the depth-1 worker has completed, and lastPV is not read
\* empty.
C5_DepthOneAlwaysCompletes ==
    cpc \in {"report", "returned"} => (1 \in done /\ lastPV # <<>>)

\* C6: every call of alphaBeta, quiesce and collectPV returns with the board
\* (position, move stack, history) exactly as it found it, on every return path.
C6_BoardRestored == ev.op = "return" => ev.lifo

\* A call that made a move and was cancelled after the move's search returned
\* has returned; so has a call that took back an illegal move.
C6_CancelledAfterMove ==
    /\ ev.op = "return" /\ ev.path = "stop2" /\ ev.ply >= 1
    /\ ev.lifo /\ board.moveStack # <<>>

\* The root moves an exhaustive search to the depth just collected may choose:
\* those whose score is the root's.
RefBestMoves(depth) ==
    {m \in LegalRootMoves :
        RefMoveScore(game, InitBoard(game), m, depth, 0)
            = RefNegamax(game, InitBoard(game), depth, 0)}

\* The calling thread has just collected the PV of a completed depth.
Collected == ev.fn = "collectPV"

\* C7: on a table that was empty when the run began, the completed root call
\* of a depth and collectPV yield the root score and a root move that an
\* exhaustive negamax search of the same game to the same depth yields.
C7_SameAsExhaustive ==
    (Collected /\ game.prior = "empty") =>
        /\ rootScore = RefNegamax(game, InitBoard(game), ev.depth, 0)
        /\ lastPV # <<>>
        /\ lastPV[1] \in RefBestMoves(ev.depth)

\* The board as the draw test of the last step saw it: after the move.
Tested == IF ev.op = "call" THEN board ELSE makeMove(game, board, ev.move)

LastIrreversible(b) ==
    IF b.irreversibleIndices = <<>> THEN -1
    ELSE b.irreversibleIndices[Len(b.irreversibleIndices)]

\* The indices (from 0) of the history at which the position of b stood with
\* the same side to move, after the last irreversible move.
EarlierOccurrences(b) ==
    {j \in 0..(Len(b.positionHistory) - 1) :
        /\ b.positionHistory[j + 1] = HashCode(b.pos)
        /\ (Len(b.positionHistory) - j) % 2 = 0
        /\ j > LastIrreversible(b)}

\* alphaBeta has just made a legal move and either scored it as a draw or
\* called itself on the position.
MoveTested == ev.fn = "ab" /\ (ev.op = "call" \/ ev.draw)

\* C8: a legal move of alphaBeta to a position that stood twice before, same
\* side to move, since the last irreversible move, is scored 0 and not
\* searched; and a move is a repetition draw only if the position stood at
\* least once since the last irreversible move.
C8_RepetitionDraw ==
    MoveTested =>
        /\ Cardinality(EarlierOccurrences(Tested)) >= 2 => (ev.draw /\ ev.score = 0)
        /\ ev.threefold => EarlierOccurrences(Tested) # {}

\* A move to a position that stood twice and whose evaluation is not 0 has been
\* scored as a draw.
C8_ThirdOccurrenceDrawn ==
    /\ MoveTested /\ ev.draw /\ ev.threefold /\ ev.score = 0
    /\ Cardinality(EarlierOccurrences(Tested)) = 2
    /\ evaluate(game, Tested) # 0
    /\ LastIrreversible(Tested) >= 0

MatingMoves ==
    {m \in LegalRootMoves :
        LET p == Position(game, MoveRecOf(game, InitBoard(game), m).to)
        IN  p.inCheck /\ \A k \in 1..Len(p.moves) : ~p.moves[k].legal}

\* C9: where a root move mates, the search of every completed depth selects a
\* mating move, and the root's entry read at ply 0 has a score of magnitude
\* MATE_SCORE - 1.
C9_MateInOne ==
    (Collected /\ game.prior = "empty" /\ MatingMoves # {}) =>
        /\ lastPV # <<>>
        /\ lastPV[1] \in MatingMoves
        /\ MagnitudeIs(getEntry(tt, HashCode(0), 0, ub).entry.score, MATE_SCORE - 1)

NoLegalMove(p) == \A k \in 1..Len(Position(game, p).moves) : ~Position(game, p).moves[k].legal

\* An alphaBeta call of depth >= 1 at a node without a legal move has
\* returned, not because it saw the stop flag set.
TerminalReturn(e) ==
    /\ e.op = "return" /\ e.fn = "ab" /\ e.depth >= 1
    /\ NoLegalMove(e.pos)
    /\ e.path # "stop"

TerminalValue(e) == IF Position(game, e.pos).inCheck THEN -(MATE_SCORE - e.ply) ELSE 0

\* C10 as stated: an alphaBeta call of depth >= 1 at a node without a legal
\* move returns -(MATE_SCORE - ply) in check and 0 otherwise, and stores no
\* entry.
C10_TerminalScore ==
    [][TerminalReturn(ev') => (ev'.ret = TerminalValue(ev') /\ tt'.entries = tt.entries)]_vars

\* C10 amended: the same, for the calls whose window is not empty after the
\* mate-distance clamp of lines 83-85.
C10_TerminalScoreUnlessClamped ==
    [][(TerminalReturn(ev') /\ ev'.path # "clamp") =>
           (ev'.ret = TerminalValue(ev') /\ tt'.entries = tt.entries)]_vars

\* A mated node two plies from the root has returned its mate score.
C10_MatedNodeScored ==
    /\ TerminalReturn(ev) /\ ev.path = "terminal"
    /\ Position(game, ev.pos).inCheck
    /\ ev.ply = 1 /\ ev.ret = -(MATE_SCORE - 1)

----------------------------------------------------------------------------
(* The claims about move ordering.                                          *)

\* The list a is the list b with the elements at i and j exchanged.
Swapped(b, a, i, j) == a = [[b EXCEPT ![j] = b[i]] EXCEPT ![i] = b[j]]

\* C11: selectMove(moves, i) returns a move of maximal priority among
\* moves[i..n-1], places it at index i by a single swap and changes no other
\* element; called for every index in turn it returns every move of the list
\* exactly once, in non-increasing priority order.
C11_Selection ==
    call.op = "selectMove" =>
        LET b == call.before
            a == call.after
            i == call.n
            n == Len(b)
        IN  /\ \E j \in i..n :
                  /\ Swapped(b, a, i, j)
                  /\ \A k \in i..n : b[j].score >= b[k].score
                  /\ call.move = b[j].move
            /\ i = n =>
                  /\ Len(call.returned) = n
                  /\ {call.returned[k] : k \in 1..n} = {call.scored[k].move : k \in 1..n}
                  /\ \A k \in 1..n : a[k].move = call.returned[k] /\ a[k] \in {call.scored[x] : x \in 1..n}
                  /\ \A k \in 1..(n - 1) : a[k].score >= a[k + 1].score

\* A list of three moves whose first has the lowest priority and whose other
\* two tie has been returned whole, the earlier of the tied moves first.
C11_AllReturnedInOrder ==
    /\ call.op = "selectMove" /\ call.n = 3 /\ Len(call.scored) = 3
    /\ call.scored[1].score < call.scored[2].score
    /\ call.scored[2].score = call.scored[3].score
    /\ call.returned = <<call.scored[2].move, call.scored[3].move, call.scored[1].move>>

----------------------------------------------------------------------------
(* The claims about the table's counters.                                   *)

CountersZero(t) == t.reads = 0 /\ t.writes = 0 /\ t.collisions = 0

\* The step is one of the worker's, inside alphaBeta or quiesce.
SearchStep == wpc = "run" /\ wpc' = "run" /\ frames' # frames

\* The step called getTransposition.
Probed(e) ==
    \/ e.op = "return" /\ e.path \in {"tt", "clamp"}
    \/ e.op = "enter" /\ e.path = "loop"

\* The parts of C12 about one top-level call: until Search::search returns no
\* counter decreases; writes grows by one with every slot overwritten, and
\* only in a call of setEntry; a probe adds one to reads if it finds the key
\* and one to collisions if it finds the slot taken by another key.
C12_CountersGrow ==
    [][cpc' # "returned" =>
        /\ tt'.reads >= tt.reads /\ tt'.collisions >= tt.collisions
        /\ tt'.writes \in {tt.writes, tt.writes + 1}
        /\ tt'.entries # tt.entries => tt'.writes = tt.writes + 1
        /\ (SearchStep /\ tt'.writes # tt.writes) => ev'.set
        /\ (SearchStep /\ Probed(ev')) =>
              LET e == tt.entries[SlotIndex(HashCode(board.pos))]
                  occupied == e.nodeType # "EMPTY"
                  sameKey == e.key = HashCode(board.pos)
              IN  /\ tt'.reads = tt.reads + (IF occupied /\ sameKey THEN 1 ELSE 0)
                  /\ tt'.collisions = tt.collisions + (IF occupied /\ ~sameKey THEN 1 ELSE 0)]_vars

\* The part of C12 about the reset: the step in which Search::search returns
\* sets the three counters to 0 and changes no slot.
C12_ResetKeepsSlots ==
    [][(cpc = "report" /\ cpc' = "returned") =>
          (CountersZero(tt') /\ tt'.entries = tt.entries)]_vars

\* C12: the counters only grow during the top-level call, as above; they are
\* reset to 0 by the calling thread at the end of the call, which leaves every
\* slot unchanged; and once Search::search has returned they stay 0.
C12_Counters ==
    [][/\ cpc' # "returned" =>
            /\ tt'.reads >= tt.reads /\ tt'.collisions >= tt.collisions
            /\ tt'.writes \in {tt.writes, tt.writes + 1}
            /\ tt'.entries # tt.entries => tt'.writes = tt.writes + 1
       /\ (cpc = "report" /\ cpc' = "returned") =>
            (CountersZero(tt') /\ tt'.entries = tt.entries)
       /\ cpc = "returned" => CountersZero(tt')]_vars

\* Search::search has returned, and the table has counted since.
C12_CountedAfterReturn == cpc = "returned" /\ ~CountersZero(tt)

----------------------------------------------------------------------------
(* The claims about the calling thread's progress.                          *)

----------------------------------------------------------------------------
(* The claims about the priorities in the search.                           *)

\* alphaBeta has just scored its move list: the worker is at the head of the
\* move loop of the call on top, before the first selectMove.
MovesScored ==
    /\ ev.op = "enter" /\ ev.path = "loop" /\ ev.fn = "ab"
    /\ frames # <<>> /\ Top.pc = "loop" /\ Top.i = 1

\* The indices of the scored list at which move m stands.
IndicesOf(moves, m) == {k \in 1..Len(moves) : moves[k].move = m}

\* Line 226 read lastPV[ply] although lastPV has no element at ply.
ReadPastEnd(pv, ply, moves) ==
    moves # <<>> /\ Len(pv) # 0 /\ Len(pv) - 1 <= ply /\ ply >= Len(pv)

\* C14: in scoreMoves at ply p, if the previous iteration's PV has a move at
\* index p and the move is in the list, it has a priority strictly greater
\* than every other move of the list and selectMove returns it first; and
\* lastPV is never indexed at a ply that is not less than its length.
C14_PVMoveFirst ==
    MovesScored =>
        LET f == Top
            here == IF f.ply < Len(lastPV) THEN IndicesOf(f.moves, lastPV[f.ply + 1]) ELSE {}
        IN  /\ \A k \in here :
                  /\ \A j \in 1..Len(f.moves) : j # k => f.moves[k].score > f.moves[j].score
                  /\ selectMove(f.moves, 1).move = lastPV[f.ply + 1]
            /\ ~ReadPastEnd(lastPV, f.ply, f.moves)

\* The root's PV move of depth 1 has been given the lowest priority of the
\* root's moves at depth 2, and another move is selected first.
C14_PVMoveScoredLast ==
    /\ MovesScored /\ Top.ply = 0 /\ Top.depth = 2 /\ Len(lastPV) = 1
    /\ \E k \in IndicesOf(Top.moves, lastPV[1]) :
          /\ Top.moves[k].score = INT32_MIN
          /\ \E j \in 1..Len(Top.moves) : Top.moves[j].score > Top.moves[k].score
    /\ selectMove(Top.moves, 1).move # lastPV[1]

\* The PV is read one element past its end at ply 1.
C14_PVReadPastEnd ==
    MovesScored /\ Top.ply = 1 /\ ReadPastEnd(lastPV, 1, Top.moves)

IsCaptureMove(m) == m.flag \in 1..5 /\ m.promotionType = 0

IsQuietMove(m) == (m.flag = 0 \/ m.flag >= 7) /\ m.promotionType = 0

\* The move is ranked by what it is, not as the PV move or the hash move.
RankedByKind(m) == m # call.pvMove /\ m # call.hashMove

\* C15: scoreMoves gives every capture (flag 1..5), whatever the aggressor and
\* the victim, a priority strictly higher than every quiet move, be the quiet
\* move a killer move or ranked by its history score.
C15_CapturesOutrankQuiet ==
    call.op = "scoreMoves" =>
        \A j, k \in 1..Len(call.scored) :
            (/\ IsCaptureMove(call.scored[j].move) /\ RankedByKind(call.scored[j].move)
             /\ IsQuietMove(call.scored[k].move) /\ RankedByKind(call.scored[k].move))
            => call.scored[j].score > call.scored[k].score

\* The same for the captures whose victim is worth no less than the aggressor.
C15_EvenCapturesOutrankQuiet ==
    call.op = "scoreMoves" =>
        \A j, k \in 1..Len(call.scored) :
            (/\ IsCaptureMove(call.scored[j].move) /\ RankedByKind(call.scored[j].move)
             /\ mg_value[call.recs[j].mv.flag] >= mg_value[call.recs[j].piece]
             /\ IsQuietMove(call.scored[k].move) /\ RankedByKind(call.scored[k].move))
            => call.scored[j].score > call.scored[k].score

\* A queen's capture of a pawn has been scored below a quiet move that is
\* no killer move and has no history score.
C15_LosingCaptureBelowQuiet ==
    /\ call.op = "scoreMoves"
    /\ \E j, k \in 1..Len(call.scored) :
          /\ call.recs[j].mv.flag = PAWN /\ call.recs[j].piece = QUEEN
          /\ call.scored[j].score = mg_value[PAWN] - mg_value[QUEEN]
          /\ IsQuietMove(call.scored[k].move) /\ call.scored[k].score = 0

----------------------------------------------------------------------------
(* The claims about what the search stores.                                 *)

\* An alphaBeta call has left its move loop at the end (no beta cutoff) at a
\* node with a legal move.
NormalExit == ev.op = "return" /\ ev.fn = "ab" /\ ev.path = "normal"

\* C16: on the normal exit of an alphaBeta node the entry for the node is
\* suppressed if the node's best move is a threefold-repetition draw branch
\* and is stored otherwise, whether the repetition branch raised alpha or only
\* the running best score.
C16_DrawStoreSuppressed == NormalExit => (ev.set <=> ~ev.bestDraw)

\* A node whose best move is a repetition draw that raised alpha has called
\* setEntry on its normal exit.
C16_DrawBranchStored ==
    /\ NormalExit /\ ev.set /\ ev.bestDraw
    /\ ev.wscore = 0
    /\ tt.entries[SlotIndex(HashCode(ev.pos))].nodeType = "EXACT"
    /\ tt.entries[SlotIndex(HashCode(ev.pos))].bestMove = ev.wmove

\* A node's only scored move is a repetition draw that did not raise alpha:
\* the node leaves its loop without calling setEntry.
C16_DrawBranchSuppressed ==
    /\ NormalExit /\ ~ev.set /\ ev.bestDraw
    /\ tt.entries[SlotIndex(HashCode(ev.pos))].bestMove # NULL_MOVE

\* A repetition draw has caused a beta cutoff, which stores nothing either.
C16_DrawCutoff == ev.op = "return" /\ ev.path = "cutoff" /\ ev.threefold /\ ~ev.set

----------------------------------------------------------------------------
(* The claims about the probe and the slots.                                *)

\* C17: getTransposition short-circuits, returning the stored score, only
\* when the slot's key matches, its depth is at least the depth requested, and
\* the entry is EXACT, or UPPERBOUND with score <= alpha, or LOWERBOUND with
\* score >= beta; when the stored depth is smaller than the requested depth,
\* alpha, beta and the hash move are left unchanged; and a window with
\* alpha < beta that the probe narrows still has alpha < beta.
C17_ProbeUsability ==
    call.op = "getTransposition" =>
        LET e == call.slot
            p == call.probe
            score == ReadScore(e.score, call.ply, ub)
            unchanged == p.alpha = call.alpha /\ p.beta = call.beta /\ p.hashMove = NULL_MOVE
        IN  /\ p.hit =>
                  /\ e.nodeType # "EMPTY" /\ e.key = call.key
                  /\ e.depth >= call.depth
                  /\ p.score = score
                  /\ \/ e.nodeType = "EXACT"
                     \/ e.nodeType = "UPPERBOUND" /\ score <= call.alpha
                     \/ e.nodeType = "LOWERBOUND" /\ score >= call.beta
                  /\ unchanged
            /\ e.depth < call.depth => (~p.hit /\ unchanged)
            /\ (~p.hit /\ call.alpha < call.beta) => p.alpha < p.beta

\* A probe has found an UPPERBOUND entry of sufficient depth whose score lies
\* inside the window: it narrowed beta to the score and set the hash move.
C17_WindowNarrowed ==
    /\ call.op = "getTransposition" /\ ~call.probe.hit
    /\ call.slot.nodeType = "UPPERBOUND" /\ call.slot.depth >= call.depth
    /\ call.alpha = 6 /\ call.beta = 8
    /\ call.probe.alpha = 6 /\ call.probe.beta = 7
    /\ call.probe.hashMove = call.slot.bestMove

----------------------------------------------------------------------------
(* The claims about cancelled and placeholder values.                       *)

\* alphaBeta or quiesce has returned after a call of setEntry.
Stored == ev.op = "return" /\ ev.fn \in {"ab", "q"} /\ ev.set

\* C18: however the calling thread's setting of stop interleaves with the
\* worker, no setEntry of alphaBeta or quiesce is made by a call that used a
\* score derived from a descendant call that returned 0 on seeing stop.
C18_NoCancelledWrite == Stored => ~ev.tainted

\* The same, up to the return of Search::search, while the Search object the
\* worker reads stop from exists.
C18_NoCancelledWriteBeforeReturn == (Stored /\ cpc # "returned") => ~ev.tainted

\* After Search::search has returned, a call whose child returned 0 on seeing
\* stop has gone on and stored an entry.
C18_CancelledScoreStored == Stored /\ ev.tainted /\ cpc = "returned" /\ stop

\* C19: every entry alphaBeta or quiesce passes to setEntry has a score other
\* than the initial bestScore INT32_MIN and a best move other than the empty
\* move, quiescence nodes without a legal tactical move included; and a cache
\* short-circuit never returns INT32_MIN.
C19_NoPlaceholder ==
    /\ Stored => (ev.wscore # INT32_MIN /\ ev.wmove # NULL_MOVE)
    /\ (ev.op = "return" /\ ev.path = "tt") => ev.ret # INT32_MIN

\* A quiescence node without a tactical move has stored INT32_MIN with the
\* empty move as an UPPERBOUND entry.
C19_PlaceholderStored ==
    /\ Stored /\ ev.fn = "q" /\ ev.wscore = INT32_MIN /\ ev.wmove = NULL_MOVE
    /\ tacticalMoves(game, board) = <<>>
    /\ tt.entries[SlotIndex(HashCode(ev.pos))]
          = Entry(HashCode(ev.pos), NULL_MOVE, 0, INT32_MIN, "UPPERBOUND")

\* A probe has short-circuited with INT32_MIN while Search::search is running.
C19_PlaceholderReadBack ==
    /\ ev.op = "return" /\ ev.path = "tt" /\ ev.ret = INT32_MIN
    /\ cpc # "returned" /\ ~stop

----------------------------------------------------------------------------
(* The claim about the slots over time.                                     *)

\* C20: over any sequence of setEntry calls, with resetCounters in between,
\* a slot that holds an EXACT entry holds an EXACT entry ever after and its
\* depth never decreases; and a slot once written never returns to EMPTY.
C20_MonotoneSlots ==
    [][\A i \in 0..(TT_SIZE - 1) :
          LET old == tt.entries[i]
              new == tt'.entries[i]
          IN  /\ old.nodeType = "EXACT" => (new.nodeType = "EXACT" /\ new.depth >= old.depth)
              /\ old.nodeType # "EMPTY" => new.nodeType # "EMPTY"]_vars

\* An EXACT entry has been offered a deeper LOWERBOUND entry of another key
\* and has stayed.
C20_ExactKeptAgainstDeeperBound ==
    /\ call.op = "setEntry"
    /\ call.saved.nodeType = "EXACT" /\ call.saved.depth = 1
    /\ call.entry.nodeType = "LOWERBOUND" /\ call.entry.depth = 2
    /\ call.entry.key # call.saved.key
    /\ LeftUnchanged /\ CallSlot.nodeType = "EXACT"

====
